---- MODULE Spec2Model ----
(***************************************************************************)
(* A model of the join orchestration layer of polars                       *)
(* (crates/polars-ops/src/frame/join/mod.rs): DataFrameJoinOps::join,      *)
(* DataFrameJoinOps::_join_impl and                                        *)
(* DataFrameJoinOpsPrivate::_inner_join_from_series.                       *)
(*                                                                         *)
(* A call is executed step by step: every step of the code is one action   *)
(* and one pure function from a call state to a call state (Step...), so   *)
(* that the whole call is also available as a function (RunJoin) to        *)
(* compare two calls.  The helpers that live in files outside mod.rs       *)
(* (args.rs, checks.rs, hash_join/, cross_join.rs, general.rs, asof/) are  *)
(* modelled from their documented contract.                                *)
(*                                                                         *)
(* The second part models the immutable Bitmap of polars-arrow             *)
(* (crates/polars-arrow/src/bitmap/immutable.rs): the handles on one       *)
(* shared byte buffer, their windows and their cached count of unset bits  *)
(* (BitmapSpec), and the threads that read and fill the cache of one       *)
(* shared Bitmap through relaxed atomic loads and stores (ThreadSpec).     *)
(***************************************************************************)
EXTENDS Integers, Sequences, FiniteSets, TLC

\* The largest number of rows of an input table.
MaxRows == 2

\* The null key value, and the absent row index of an IndexPair (Option::None).
\* Row indices are 1-based, key values are >= 1.
NULL == 0

\* The default suffix of a right-hand column whose name collides.
Suffix == "_right"

-----------------------------------------------------------------------------
(* Sequences *)

RECURSIVE Concat(_)
Concat(ss) == IF Len(ss) = 0 THEN << >> ELSE Head(ss) \o Concat(Tail(ss))

Range(s) == {s[i] : i \in 1..Len(s)}

Min2(a, b) == IF a < b THEN a ELSE b
Max2(a, b) == IF a > b THEN a ELSE b
Clamp(v, lo, hi) == Max2(lo, Min2(v, hi))

\* polars_core::utils::slice_offsets: a negative offset counts from the end,
\* start and stop are clamped to the array, returns <<start, length>> (0-based).
slice_offsets(offset, length, array_len) ==
    LET start == IF offset < 0 THEN offset + array_len ELSE offset
        stop  == start + length
        s0    == Clamp(start, 0, array_len)
        s1    == Clamp(stop, 0, array_len)
    IN  <<s0, IF s1 > s0 THEN s1 - s0 ELSE 0>>

\* polars_core::utils::slice_slice: the sub-slice the offsets select.
slice_slice(vals, offset, len) ==
    LET o == slice_offsets(offset, len, Len(vals))
    IN  SubSeq(vals, o[1] + 1, o[1] + o[2])

-----------------------------------------------------------------------------
(* Tables: a DataFrame is a sequence of Series; a Series has a name, a      *)
(* logical dtype, values and, for a categorical, the dictionary (rev-map)  *)
(* its values are codes of: code c stands for the string dict[c].           *)

Series(name, dtype, vals, dict) ==
    [name |-> name, dtype |-> dtype, vals |-> vals, dict |-> dict]

height(df) == IF Len(df) = 0 THEN 0 ELSE Len(df[1].vals)

Names(df) == [i \in 1..Len(df) |-> df[i].name]

HasColumn(df, name) == \E i \in 1..Len(df) : df[i].name = name

column(df, name) == df[CHOOSE i \in 1..Len(df) : df[i].name = name]

\* DataFrame::select_series on existing column names.
select_series(df, names) == [i \in 1..Len(names) |-> column(df, names[i])]

\* DataFrame::drop of a column.
drop(df, name) == SelectSeq(df, LAMBDA c : c.name # name)

\* Gather of one Series by row indices; an absent index gives a null.
TakeSeries(s, idx) ==
    [s EXCEPT !.vals = [i \in 1..Len(idx) |->
                          IF idx[i] = NULL THEN NULL ELSE s.vals[idx[i]]]]

\* DataFrame::take_unchecked / _take_unchecked_slice / _create_left_df_from_slice.
take(df, idx) == [c \in 1..Len(df) |-> TakeSeries(df[c], idx)]

\* DataFrame::slice.
SliceSeries(s, offset, len) == [s EXCEPT !.vals = slice_slice(s.vals, offset, len)]
slice(df, offset, len) == [c \in 1..Len(df) |-> SliceSeries(df[c], offset, len)]

-----------------------------------------------------------------------------
(* The calls that are checked.  An input table has the key columns "k" and  *)
(* "g" and a payload column "v" that identifies the row; both tables use    *)
(* the same names, so that the right payload collides with the left one.    *)

JoinTypes == {"Inner", "Left", "Outer", "Semi", "Anti", "AsOf", "Cross"}
ValidationModes == {"ManyToMany", "OneToOne", "OneToMany", "ManyToOne"}
DTypes == {"Int", "Str", "Cat"}

\* The key tuples <<k, g>> of a row: a duplicate of k, a second g, a null k.
KeyTuples == {<<1, 1>>, <<1, 2>>, <<NULL, 1>>}

RowSeqs == UNION {[1..n -> KeyTuples] : n \in 0..MaxRows}

\* The dictionaries of the two tables' categorical columns: the same strings
\* under different codes, as two independently built dictionaries have them.
LeftDict == <<1, 2>>
RightDict == <<2, 1>>

CodeOf(v, dict) == IF v = NULL THEN NULL ELSE CHOOSE c \in 1..Len(dict) : dict[c] = v

KeySeries(name, dtype, logical, dict) ==
    IF dtype = "Cat"
    THEN Series(name, dtype, [i \in 1..Len(logical) |-> CodeOf(logical[i], dict)], dict)
    ELSE Series(name, dtype, logical, << >>)

MakeDF(rows, kdt, gdt, dict, base) ==
    << KeySeries("k", kdt, [i \in 1..Len(rows) |-> rows[i][1]], dict),
       KeySeries("g", gdt, [i \in 1..Len(rows) |-> rows[i][2]], dict),
       Series("v", "Int", [i \in 1..Len(rows) |-> base + i], << >>) >>

\* JoinArgs.slice: << >> is None, <<offset, len>> is Some((offset, len)).
Slices == {<< >>, <<0, 1>>, <<1, 1>>, <<1, 2>>}

KeyLists == {<< >>, <<"k">>, <<"k", "g">>}

Call(entry, how, coalesce, validation, join_nulls, sl, left_on, right_on, lrows, rrows, ldt, rdt, rgdt, left_by, right_by) ==
    [entry |-> entry, how |-> how, coalesce |-> coalesce, validation |-> validation,
     join_nulls |-> join_nulls, slice |-> sl, left_on |-> left_on,
     right_on |-> right_on, lrows |-> lrows, rrows |-> rrows, ldt |-> ldt,
     rdt |-> rdt, rgdt |-> rgdt, left_by |-> left_by, right_by |-> right_by]

\* The arguments of the well-formed calls: coalescing is an option of the outer
\* join, the inner entry point is entered directly for the cross join only,
\* and categorical keys are joined by the branches that reconcile them.
DataCallOk(c) ==
    /\ c.coalesce => c.how = "Outer"
    /\ c.entry = "_join_impl" => c.how = "Cross"
    /\ c.ldt = "Cat" => c.how \in {"Inner", "Left", "Semi", "Anti"}
    /\ c.how = "Cross" => c.join_nulls /\ c.ldt = "Int"

DataArgs ==
    { a \in [entry : {"join", "_join_impl"}, how : JoinTypes \ {"AsOf"},
             coalesce : BOOLEAN, join_nulls : BOOLEAN, slice : Slices,
             on : KeyLists \ {<< >>}, ldt : {"Int", "Cat"}] : DataCallOk(a) }

\* Well-formed calls over every pair of small tables.
DataCalls ==
    { Call(a.entry, a.how, a.coalesce, "ManyToMany", a.join_nulls, a.slice, a.on, a.on,
           lrows, rrows, a.ldt, a.ldt, "Int", FALSE, FALSE) :
        a \in DataArgs, lrows \in RowSeqs, rrows \in RowSeqs }

\* Calls that the checks may reject, over a few fixed tables.
CheckTables ==
    { << <<<<1, 1>>>>, <<<<1, 1>>>> >>,
      << <<<<1, 1>>, <<1, 2>>>>, <<<<1, 1>>>> >>,
      << <<<<1, 1>>>>, <<<<1, 1>>, <<1, 2>>>> >> }

CheckCalls ==
    { Call(entry, how, FALSE, validation, FALSE, << >>, left_on, right_on,
           t[1], t[2], ldt, rdt, rgdt, left_by, right_by) :
        entry \in {"join", "_join_impl"}, how \in JoinTypes,
        validation \in ValidationModes, left_on \in KeyLists, right_on \in KeyLists,
        t \in CheckTables, ldt \in DTypes, rdt \in DTypes, rgdt \in {"Int", "Str"},
        left_by \in BOOLEAN, right_by \in BOOLEAN }

CheckCallOk(c) ==
    /\ (c.left_by \/ c.right_by) => c.how = "AsOf"
    /\ c.entry = "join" => c.validation \in {"ManyToMany", "OneToOne"}

\* The example of an inner join on id: L.id = [1, 2, 2, 3], R.id = [2, 2, 4].
ExampleCalls ==
    { Call("join", "Inner", FALSE, "ManyToMany", FALSE, << >>, <<"k">>, <<"k">>,
           <<<<1, 1>>, <<2, 1>>, <<2, 1>>, <<3, 1>>>>,
           <<<<2, 1>>, <<2, 1>>, <<4, 1>>>>, "Int", "Int", "Int", FALSE, FALSE) }

\* Outer joins whose key has a different name on the two sides: the left "k"
\* is joined with the right "g".
RenamedCalls ==
    { Call("join", "Outer", coalesce, "ManyToMany", join_nulls, << >>, <<"k">>, <<"g">>,
           t[1], t[2], "Int", "Int", "Int", FALSE, FALSE) :
        coalesce \in BOOLEAN, join_nulls \in BOOLEAN, t \in CheckTables }

Calls == {c \in CheckCalls : CheckCallOk(c)} \cup DataCalls \cup ExampleCalls \cup RenamedCalls

-----------------------------------------------------------------------------
(* Key frames and the matchers.  A key frame is the sequence of the value   *)
(* sequences of the physical key columns; its rows are the key tuples.      *)

\* _to_physical_and_bit_repr: the values without the logical type (the codes
\* of a categorical).
to_physical(selected) == [i \in 1..Len(selected) |-> selected[i].vals]

FrameHeight(frame) == IF Len(frame) = 0 THEN 0 ELSE Len(frame[1])

KeyTuple(frame, i) == [c \in 1..Len(frame) |-> frame[c][i]]

SliceFrame(frame, offset, len) ==
    [c \in 1..Len(frame) |-> slice_slice(frame[c], offset, len)]

HasNull(t) == \E c \in 1..Len(t) : t[c] = NULL

\* Key-tuple equality: exact; a tuple with a null matches nothing unless
\* nulls are joined.
KeysMatch(lt, rt, join_nulls) == lt = rt /\ (join_nulls \/ ~HasNull(lt))

\* The right rows that match left row i, in right order.
MatchesOf(lf, rf, i, join_nulls) ==
    SelectSeq([j \in 1..FrameHeight(rf) |-> j],
              LAMBDA j : KeysMatch(KeyTuple(lf, i), KeyTuple(rf, j), join_nulls))

Unzip(pairs) == [l |-> [i \in 1..Len(pairs) |-> pairs[i][1]],
                 r |-> [i \in 1..Len(pairs) |-> pairs[i][2]]]

\* det_hash_prone_order!: the smaller relation is hashed; the flag tells
\* whether the sides were exchanged for that.  Ties break to "no swap".
det_hash_prone_order(left, right) == FrameHeight(left) < FrameHeight(right)

\* Inner matcher: every matching (l, r) exactly once, in probe order.  The
\* relation that is not hashed is probed; the pairs are returned in the
\* caller's orientation.
InnerPairs(lf, rf, swap, join_nulls) ==
    IF swap
    THEN Concat([j \in 1..FrameHeight(rf) |->
                   LET ls == SelectSeq([i \in 1..FrameHeight(lf) |-> i],
                                 LAMBDA i : KeysMatch(KeyTuple(lf, i), KeyTuple(rf, j), join_nulls))
                   IN  [n \in 1..Len(ls) |-> <<ls[n], j>>]])
    ELSE Concat([i \in 1..FrameHeight(lf) |->
                   LET rs == MatchesOf(lf, rf, i, join_nulls)
                   IN  [n \in 1..Len(rs) |-> <<i, rs[n]>>]])

\* Left matcher: left row order; an unmatched left row once, with no right row.
LeftPairs(lf, rf, join_nulls) ==
    Concat([i \in 1..FrameHeight(lf) |->
              LET rs == MatchesOf(lf, rf, i, join_nulls)
              IN  IF Len(rs) = 0 THEN <<<<i, NULL>>>>
                  ELSE [n \in 1..Len(rs) |-> <<i, rs[n]>>]])

\* Outer matcher: the left pairs, then the right rows no left row matches.
OuterPairs(lf, rf, join_nulls) ==
    LET lp == LeftPairs(lf, rf, join_nulls)
        unmatched == SelectSeq([j \in 1..FrameHeight(rf) |-> j],
                         LAMBDA j : \A n \in 1..Len(lp) : lp[n][2] # j)
    IN  lp \o [n \in 1..Len(unmatched) |-> <<NULL, unmatched[n]>>]

\* The frames det_hash_prone_order! returns with the flag: the longer relation
\* first (it is probed), the shorter one second (it is hashed).
HashProneFrames(left, right) ==
    IF det_hash_prone_order(left, right) THEN <<right, left>> ELSE <<left, right>>

\* Mutant: the matcher takes the frames it is handed for the caller's left and
\* right, whatever the flag says.
CallerFramesAsHanded(a, b, swap) == <<a, b>>

\* The caller's left and right frame among the two frames a matcher is handed
\* with the swap flag.
CallerFrames(a, b, swap) == IF swap THEN <<b, a>> ELSE <<a, b>>

\* _inner_join_multiple_keys(a, b, swap, join_nulls): the index pairs in the
\* caller's orientation.
_inner_join_multiple_keys(a, b, swap, join_nulls) ==
    LET f == CallerFrames(a, b, swap)
    IN  InnerPairs(f[1], f[2], swap, join_nulls)

\* _outer_join_multiple_keys(a, b, swap, join_nulls): the index pairs in the
\* caller's orientation and in the caller's left row order.
_outer_join_multiple_keys(a, b, swap, join_nulls) ==
    LET f == CallerFrames(a, b, swap)
    IN  OuterPairs(f[1], f[2], join_nulls)

\* Semi (anti = FALSE) and anti matcher: the left rows with at least one
\* (with no) match, each once, in left order.
SemiAntiIdx(lf, rf, anti, join_nulls) ==
    SelectSeq([i \in 1..FrameHeight(lf) |-> i],
              LAMBDA i : (Len(MatchesOf(lf, rf, i, join_nulls)) = 0) = anti)

\* As-of matcher (backward strategy, no tolerance): each left row with the
\* last right row whose key is not larger, within equal "by" values.
AsofPairs(lkey, rkey, lby, rby, use_by) ==
    [i \in 1..Len(lkey) |->
       LET cand == {j \in 1..Len(rkey) :
                      /\ lkey[i] # NULL /\ rkey[j] # NULL /\ rkey[j] <= lkey[i]
                      /\ use_by => lby[i] = rby[j]}
       IN  <<i, IF cand = {} THEN NULL
                ELSE CHOOSE j \in cand : \A x \in cand : x <= j>>]

\* The key tuples of a key frame, in row order.
KeySeqOf(frame) == [i \in 1..FrameHeight(frame) |-> KeyTuple(frame, i)]

\* The cardinality a ValidationMode demands of the key values of each side.
IsUnique(vals) == \A i, j \in 1..Len(vals) : vals[i] = vals[j] => i = j

CardinalityOk(validation, lvals, rvals) ==
    CASE validation = "ManyToMany" -> TRUE
      [] validation = "OneToOne"   -> IsUnique(lvals) /\ IsUnique(rvals)
      [] validation = "OneToMany"  -> IsUnique(lvals)
      [] validation = "ManyToOne"  -> IsUnique(rvals)

-----------------------------------------------------------------------------
(* Results, checks and result assembly. *)

NoOut == [kind |-> "None", err |-> "", check |-> "", names |-> << >>, df |-> << >>]
Ok(df) == [kind |-> "Ok", err |-> "", check |-> "", names |-> << >>, df |-> df]
Err(err, check, names) ==
    [kind |-> "Err", err |-> err, check |-> check, names |-> names, df |-> << >>]
Panic(check) == [kind |-> "Panic", err |-> "", check |-> check, names |-> << >>, df |-> << >>]

\* JoinValidation::is_valid_join(join_type, n_keys): whether the validation
\* mode is supported for the join type and the number of keys.  It sees no
\* key values.
is_valid_join(validation, how, n_keys) ==
    \/ validation = "ManyToMany"
    \/ n_keys = 1 /\ how \in {"Inner", "Outer", "Left"}

\* Mutant: only a longer left key list is refused.
KeyCountLeq(selected_left, selected_right) == Len(selected_left) <= Len(selected_right)

\* polars_ensure!(selected_left.len() == selected_right.len(), ...).
KeyCountOk(selected_left, selected_right) == Len(selected_left) = Len(selected_right)

\* Mutant: the last pair of different dtype is reported, not the first.
DtypeMismatchLast(selected_left, selected_right) ==
    LET n == Min2(Len(selected_left), Len(selected_right))
        bad == {i \in 1..n : selected_left[i].dtype # selected_right[i].dtype}
    IN  IF bad = {} THEN 0 ELSE CHOOSE i \in bad : \A j \in bad : i >= j

\* Mutant: the dtype comparison is left out.
DtypeMismatchNever(selected_left, selected_right) == 0

\* selected_left.iter().zip(&selected_right).find(|(l, r)| l.dtype() != r.dtype()):
\* the position of the first pair of different dtype, 0 if there is none.  Two
\* categoricals have equal dtype whatever their dictionaries.
DtypeMismatch(selected_left, selected_right) ==
    LET n == Min2(Len(selected_left), Len(selected_right))
        bad == {i \in 1..n : selected_left[i].dtype # selected_right[i].dtype}
    IN  IF bad = {} THEN 0 ELSE CHOOSE i \in bad : \A j \in bad : i <= j

\* The names and types the dtype error message carries.
DtypeErrorNames(l, r) == <<l.name, l.dtype, r.name, r.dtype>>

\* _check_categorical_src: fails for two categoricals of different sources.
_check_categorical_src(l, r) ==
    ~(l.dtype = "Cat" /\ r.dtype = "Cat" /\ l.dict # r.dict)

Decode(s) == [i \in 1..Len(s.vals) |->
                IF s.vals[i] = NULL THEN NULL ELSE s.dict[s.vals[i]]]

\* make_categoricals_compatible: both columns re-encoded against the union
\* dictionary (the left strings, then the right strings the left lacks).
make_categoricals_compatible(l, r) ==
    LET union == l.dict \o SelectSeq(r.dict, LAMBDA x : x \notin Range(l.dict))
    IN  << KeySeries(l.name, "Cat", Decode(l), union),
           KeySeries(r.name, "Cat", Decode(r), union) >>

\* Mutant: categorical pairs are left as they are.
ReconcilePairNever(l, r) == <<l, r>>

\* The loop over the key pairs that reconciles the categorical pairs.
ReconcilePair(l, r) ==
    IF _check_categorical_src(l, r) THEN <<l, r>> ELSE make_categoricals_compatible(l, r)

\* remove_selected: the table without the selected columns; << >> stands for
\* None, which the final unwrap() panics on (no column was selected).
RECURSIVE DropAll(_, _)
DropAll(df, selected) ==
    IF Len(selected) = 0 THEN df
    ELSE DropAll(drop(df, Head(selected).name), Tail(selected))

remove_selected_panics(selected) == Len(selected) = 0

remove_selected(df, selected) == DropAll(df, selected)

\* _join_suffix_name and _finish_join: the right columns whose name a left
\* column has get the suffix, then the right columns follow the left ones.
_finish_join(df_left, df_right) ==
    df_left \o [i \in 1..Len(df_right) |->
                  IF HasColumn(df_left, df_right[i].name)
                  THEN [df_right[i] EXCEPT !.name = df_right[i].name \o Suffix]
                  ELSE df_right[i]]

\* coalesce_outer_join: each left key column takes the right key's value
\* where it is null, and the right key columns are removed.
CoalesceColumn(l, r) ==
    [l EXCEPT !.vals = [i \in 1..Len(l.vals) |->
                          IF l.vals[i] # NULL THEN l.vals[i] ELSE r.vals[i]]]

RightKeyName(l, r, df_left) ==
    IF l = r \/ HasColumn(df_left, r) THEN r \o Suffix ELSE r

coalesce_outer_join(df, names_left, names_right, df_left) ==
    LET rname(i) == RightKeyName(names_left[i], names_right[i], df_left)
        merged == [c \in 1..Len(df) |->
                     IF \E i \in 1..Len(names_left) : names_left[i] = df[c].name
                     THEN LET i == CHOOSE i \in 1..Len(names_left) : names_left[i] = df[c].name
                          IN  CoalesceColumn(df[c], column(df, rname(i)))
                     ELSE df[c]]
    IN  SelectSeq(merged, LAMBDA c : \A i \in 1..Len(names_left) : c.name # rname(i))

\* CrossJoin::cross_join: the cartesian product of the row indices in
\* left-major order, sliced, gathered and finished.
CrossPairs(n_left, n_right) ==
    Concat([i \in 1..n_left |-> [j \in 1..n_right |-> <<i, j>>]])

\* Mutant: only the left index sequence is sliced.
SliceIdsLeftOnly(ids, sl) ==
    IF sl = << >> THEN ids
    ELSE [l |-> slice_slice(ids.l, sl[1], sl[2]), r |-> ids.r]

SliceIds(ids, sl) ==
    IF sl = << >> THEN ids
    ELSE [l |-> slice_slice(ids.l, sl[1], sl[2]), r |-> slice_slice(ids.r, sl[1], sl[2])]

cross_join(df_left, other, sl) ==
    LET ids == SliceIds(Unzip(CrossPairs(height(df_left), height(other))), sl)
    IN  _finish_join(take(df_left, ids.l), take(other, ids.r))

-----------------------------------------------------------------------------
(* The state of one call. *)

VARIABLES
    pc,              \* the position of the call in join / _join_impl
    call,            \* the arguments: entry point, JoinArgs, key names
    left_df, other,  \* the two input tables
    chunks,          \* the number of chunks of each input table
    semi_anti_nulls, \* how the single-key semi/anti matcher treats null keys
    check_rechunk,   \* _check_rechunk of the running _join_impl
    cow,             \* whether left / right are borrowed inputs or rechunked clones
    selected_left, selected_right,  \* the key Series
    log,             \* the steps taken so far, in order
    seen,            \* what the matcher was handed, when it was invoked
    ids,             \* the IndexPair sequence, as a left and a right sequence
    task,            \* the two gather tasks of POOL.join
    parts,           \* the gathered left and right projections
    out,             \* the result of the call
    arc,             \* the Arc<Bytes<u8>> buffer the Bitmap handles share
    bitmaps,         \* the Bitmap handles: offset, length, cached count
    ret,             \* what the last Bitmap operation returned
    overflow_checks, \* whether the build panics on integer overflow
    threads,         \* the threads that share one Bitmap: their running call
    cache_order      \* the modification order of the shared atomic cache

join_vars == <<pc, call, left_df, other, chunks, semi_anti_nulls, check_rechunk,
               cow, selected_left, selected_right, log, seen, ids, task, parts,
               out>>

bitmap_vars == <<arc, bitmaps, ret, overflow_checks>>

vars == <<join_vars, bitmap_vars, threads, cache_order>>

-----------------------------------------------------------------------------
(* The Bitmap of polars-arrow (bitmap/immutable.rs): a window              *)
(* [offset, offset + length) on a byte buffer held through an Arc, and a   *)
(* cache of the number of unset bits of the window.                        *)

\* The width of usize and of the u64 cache, scaled down: arithmetic on them
\* wraps modulo 2^WordBits unless the build checks for overflow.
WordBits == 7

UsizeMax == 2^WordBits - 1

Wrap(x) == x % (UsizeMax + 1)

\* The largest number of Bitmap handles alive at once.
MaxBitmaps == 2

\* The marker of a count that is not computed yet (u64::MAX).
UNKNOWN_BIT_COUNT == UsizeMax

\* cache >> 63 != 0: the top bit of the cache is set.
TopBit(cache) == cache \div 2^(WordBits - 1) # 0

\* Bit i (from 0) of a byte buffer, least significant bit of a byte first.
get_bit(bytes, i) == (bytes[(i \div 8) + 1] \div 2^(i % 8)) % 2 = 1

\* Whether `len` bits from bit `offset` lie within the buffer.
InBytes(bytes, offset, len) == offset + len <= Len(bytes) * 8

\* The number of unset bits among `len` bits from bit `offset`.
count_zeros(bytes, offset, len) ==
    Cardinality({i \in offset..(offset + len - 1) : ~get_bit(bytes, i)})

\* check: the window must lie within the buffer.
bitmap_check(bytes, offset, length) == offset + length <= Len(bytes) * 8

\* What an operation on a Bitmap gives: how it ended, the Bitmap afterwards
\* and the number returned.
Outcome(kind, bitmap, n) == [kind |-> kind, bitmap |-> bitmap, n |-> n]

\* Option<usize>.
None == [some |-> FALSE, n |-> 0]
Some(n) == [some |-> TRUE, n |-> n]

\* from_inner_unchecked: the Bitmap of a window and an optional count.
from_inner_unchecked(offset, length, unset_bits) ==
    [offset |-> offset, length |-> length,
     unset_bit_count_cache |-> IF unset_bits.some THEN unset_bits.n
                               ELSE UNKNOWN_BIT_COUNT]

\* try_new: a Bitmap on the first `length` bits of a vector, the count unknown.
try_new(bytes, length) ==
    IF bitmap_check(bytes, 0, length)
    THEN Outcome("Ok", [offset |-> 0, length |-> length,
                        unset_bit_count_cache |-> UNKNOWN_BIT_COUNT], 0)
    ELSE Outcome("Err", [offset |-> 0, length |-> 0,
                         unset_bit_count_cache |-> UNKNOWN_BIT_COUNT], 0)

\* The byte vector new_with_value allocates.
FilledBytes(value, length) ==
    [i \in 1..((length + 7) \div 8) |-> IF value THEN 255 ELSE 0]

\* new_with_value: all bits equal, the count known from the start.
new_with_value(value, length) ==
    from_inner_unchecked(0, length, Some(IF value THEN 0 ELSE length))

\* Clone: the same window, the cache as it is read.
clone(b) == [b EXCEPT !.unset_bit_count_cache = b.unset_bit_count_cache]

\* unset_bits: the cached count, or the counted one, which it stores.  A
\* count over bits outside the buffer panics.
unset_bits(b, bytes) ==
    LET cache == b.unset_bit_count_cache
    IN  IF TopBit(cache)
        THEN IF InBytes(bytes, b.offset, b.length)
             THEN LET zeros == count_zeros(bytes, b.offset, b.length)
                  IN  Outcome("ok", [b EXCEPT !.unset_bit_count_cache = zeros],
                              zeros)
             ELSE Outcome("panic", b, 0)
        ELSE Outcome("ok", b, cache)

\* set_bits: self.length - self.unset_bits(); the subtraction panics on
\* overflow in a build that checks for it, and wraps otherwise.
set_bits(b, bytes, checks) ==
    LET u == unset_bits(b, bytes)
    IN  IF u.kind = "panic" THEN u
        ELSE IF u.n > b.length /\ checks THEN Outcome("panic", u.bitmap, 0)
        ELSE Outcome("ok", u.bitmap, Wrap(b.length - u.n + UsizeMax + 1))

\* lazy_unset_bits: the cached count, if there is one.
lazy_unset_bits(b) ==
    LET cache == b.unset_bit_count_cache
    IN  IF TopBit(cache) THEN Outcome("None", b, 0) ELSE Outcome("Some", b, cache)

\* The threshold of slice_unchecked: (self.length / 5).max(32).
small_portion(length) == IF length \div 5 > 32 THEN length \div 5 ELSE 32

\* The count slice_unchecked keeps for a window from which few bits are cut.
Recount(b, bytes, offset, length) ==
    LET cache == b.unset_bit_count_cache
        slice_end == Wrap(b.offset + offset + length)
        tail == Wrap(b.length - length - offset + 2 * (UsizeMax + 1))
    IN  IF InBytes(bytes, b.offset, offset) /\ InBytes(bytes, slice_end, tail)
        THEN Some(Wrap(cache - count_zeros(bytes, b.offset, offset)
                             - count_zeros(bytes, slice_end, tail)
                             + 2 * (UsizeMax + 1)))
        ELSE None

\* slice_unchecked: the window moves by `offset` and takes `length`; the
\* count is kept where it follows from the old one, recounted when few bits
\* are cut, and forgotten otherwise.
slice_unchecked(b, bytes, offset, length) ==
    LET cache == b.unset_bit_count_cache
        moved == [b EXCEPT !.offset = Wrap(b.offset + offset), !.length = length]
    IN  IF offset = 0 /\ length = b.length THEN Outcome("ok", b, 0)
        ELSE IF cache = 0 \/ cache = b.length
        THEN Outcome("ok", [moved EXCEPT !.unset_bit_count_cache =
                                IF cache > 0 THEN length ELSE 0], 0)
        ELSE IF ~TopBit(cache)
        THEN IF Wrap(length + small_portion(b.length)) >= b.length
             THEN LET new_count == Recount(b, bytes, offset, length)
                  IN  IF new_count.some
                      THEN Outcome("ok", [moved EXCEPT
                               !.unset_bit_count_cache = new_count.n], 0)
                      ELSE Outcome("panic", b, 0)
             ELSE Outcome("ok", [moved EXCEPT
                      !.unset_bit_count_cache = UNKNOWN_BIT_COUNT], 0)
        ELSE Outcome("ok", moved, 0)

\* The assertion of slice and sliced; the sum panics on overflow in a build
\* that checks for it, and wraps otherwise.
SliceAsserts(b, offset, length, checks) ==
    /\ ~(checks /\ offset + length > UsizeMax)
    /\ Wrap(offset + length) <= b.length

\* slice: assert!(offset + length <= self.length), then slice_unchecked.
bitmap_slice(b, bytes, offset, length, checks) ==
    IF SliceAsserts(b, offset, length, checks)
    THEN slice_unchecked(b, bytes, offset, length)
    ELSE Outcome("panic", b, 0)

\* sliced: the same on a Bitmap taken by value.
bitmap_sliced(b, bytes, offset, length, checks) ==
    IF SliceAsserts(b, offset, length, checks)
    THEN slice_unchecked(b, bytes, offset, length)
    ELSE Outcome("panic", b, 0)

\* Arc::get_mut: the buffer is handed out only to its one owner.
ArcGetMut(strong_count) == strong_count = 1

\* Mutant: a buffer is handed out while others own it too.
IntoMutShared(b, native, strong_count) == b.offset = 0 /\ native

\* into_mut gives a MutableBitmap for (offset 0, Some(vec)): the Arc has one
\* owner and the buffer is a native vector.
IntoMutRight(b, native, strong_count) ==
    b.offset = 0 /\ ArcGetMut(strong_count) /\ native

NoMutable == [buffer |-> << >>, length |-> 0]

\* MutableBitmap::from_vec(buffer, length).
MutableBitmap(buffer, length) == [buffer |-> buffer, length |-> length]

\* No Bitmap exists.
NoBitmaps ==
    /\ arc = [bytes |-> << >>, native |-> TRUE, holders |-> 0]
    /\ bitmaps = << >>
    /\ ret = [kind |-> "", n |-> 0, mutable |-> NoMutable]
    /\ overflow_checks = FALSE
    /\ threads = << >> /\ cache_order = << >>

-----------------------------------------------------------------------------
(* The call state. *)

NotInvoked == [called |-> FALSE, how |-> "", left |-> << >>, right |-> << >>,
               join_nulls |-> "", validation |-> "",
               pairs |-> [l |-> << >>, r |-> << >>]]

NChunks(rows) == IF Len(rows) >= 2 THEN 2 ELSE 1

\* The state in which the call `c` starts; `san` is the null treatment of the
\* single-key semi/anti matcher.
InitState(c, san) ==
    LET l == MakeDF(c.lrows, c.ldt, "Int", LeftDict, 10)
        r == MakeDF(c.rrows, c.rdt, c.rgdt, RightDict, 20)
        direct == c.entry = "_join_impl"
    IN  [pc |-> IF direct THEN "is_valid_join" ELSE "join",
         call |-> c, left_df |-> l, other |-> r,
         chunks |-> [l |-> NChunks(c.lrows), r |-> NChunks(c.rrows)],
         semi_anti_nulls |-> san,
         check_rechunk |-> TRUE,
         cow |-> [l |-> "Borrowed", r |-> "Borrowed"],
         selected_left |-> IF direct THEN select_series(l, c.left_on) ELSE << >>,
         selected_right |-> IF direct THEN select_series(r, c.right_on) ELSE << >>,
         log |-> << >>, seen |-> NotInvoked,
         ids |-> [l |-> << >>, r |-> << >>],
         task |-> [l |-> "idle", r |-> "idle"],
         parts |-> [l |-> << >>, r |-> << >>],
         out |-> NoOut]

Cur == [pc |-> pc, call |-> call, left_df |-> left_df, other |-> other,
        chunks |-> chunks, semi_anti_nulls |-> semi_anti_nulls,
        check_rechunk |-> check_rechunk, cow |-> cow,
        selected_left |-> selected_left, selected_right |-> selected_right,
        log |-> log, seen |-> seen, ids |-> ids, task |-> task, parts |-> parts,
        out |-> out]

Becomes(s) ==
    /\ pc' = s.pc /\ call' = s.call /\ left_df' = s.left_df /\ other' = s.other
    /\ chunks' = s.chunks /\ semi_anti_nulls' = s.semi_anti_nulls
    /\ check_rechunk' = s.check_rechunk /\ cow' = s.cow
    /\ selected_left' = s.selected_left /\ selected_right' = s.selected_right
    /\ log' = s.log /\ seen' = s.seen /\ ids' = s.ids /\ task' = s.task
    /\ parts' = s.parts /\ out' = s.out
    /\ UNCHANGED <<bitmap_vars, threads, cache_order>>

Starts(s) ==
    /\ pc = s.pc /\ call = s.call /\ left_df = s.left_df /\ other = s.other
    /\ chunks = s.chunks /\ semi_anti_nulls = s.semi_anti_nulls
    /\ check_rechunk = s.check_rechunk /\ cow = s.cow
    /\ selected_left = s.selected_left /\ selected_right = s.selected_right
    /\ log = s.log /\ seen = s.seen /\ ids = s.ids /\ task = s.task
    /\ parts = s.parts /\ out = s.out
    /\ NoBitmaps

Logged(s, event) == [s EXCEPT !.log = Append(@, event)]

\* The call returns `result`.
Return(s, result) == [s EXCEPT !.pc = "done", !.out = result]

-----------------------------------------------------------------------------
(* The steps of DataFrameJoinOps::join and DataFrameJoinOps::_join_impl up  *)
(* to the dispatch. *)

\* join: a cross join returns at once, with no slice; any other join selects
\* the key Series and calls _join_impl(.., _check_rechunk = true, ..).
StepJoin(s) ==
    IF s.call.how = "Cross"
    THEN Return(Logged(s, "cross_join"), Ok(cross_join(s.left_df, s.other, << >>)))
    ELSE [Logged(s, "select_series") EXCEPT
            !.selected_left = select_series(s.left_df, s.call.left_on),
            !.selected_right = select_series(s.other, s.call.right_on),
            !.check_rechunk = TRUE,
            !.pc = "is_valid_join"]

\* _join_impl: args.validation.is_valid_join(&args.how, selected_left.len())?
StepIsValidJoin(s) ==
    IF is_valid_join(s.call.validation, s.call.how, Len(s.selected_left))
    THEN [Logged(s, "is_valid_join") EXCEPT !.pc = "cross"]
    ELSE Return(Logged(s, "is_valid_join"), Err("ComputeError", "is_valid_join", << >>))

\* Mutant: _join_impl has no cross join shortcut.
StepCrossMissing(s) == [s EXCEPT !.pc = "rechunk"]

\* _join_impl: the cross join shortcut, with args.slice.
StepCross(s) ==
    IF s.call.how = "Cross"
    THEN Return(Logged(s, "cross_join"), Ok(cross_join(s.left_df, s.other, s.call.slice)))
    ELSE [s EXCEPT !.pc = "rechunk"]

should_rechunk(n_chunks) == n_chunks > 1

\* Mutant: the tables that need it are rechunked in place, without a clone.
StepRechunkInPlace(s) ==
    IF s.check_rechunk /\ s.call.how # "Left"
    THEN [Logged(s, "rechunk") EXCEPT
            !.chunks = [l |-> 1, r |-> 1],
            !.check_rechunk = FALSE,
            !.pc = "is_valid_join"]
    ELSE [s EXCEPT !.pc = "key_count"]

\* _join_impl: unless a left join, clone and rechunk the tables that need it
\* and run _join_impl again on the clones with _check_rechunk = false.
StepRechunk(s) ==
    IF s.check_rechunk /\ s.call.how # "Left"
    THEN [Logged(s, "rechunk") EXCEPT
            !.cow = [l |-> IF should_rechunk(s.chunks.l) THEN "Owned" ELSE "Borrowed",
                     r |-> IF should_rechunk(s.chunks.r) THEN "Owned" ELSE "Borrowed"],
            !.check_rechunk = FALSE,
            !.pc = "is_valid_join"]
    ELSE [s EXCEPT !.pc = "key_count"]

\* Mutant: the dtypes are compared before the key counts.
StepKeyCountAfterDtype(s) ==
    LET i == DtypeMismatch(s.selected_left, s.selected_right)
    IN  IF i # 0
        THEN Return(Logged(s, "dtype"),
                    Err("ComputeError", "dtype",
                        DtypeErrorNames(s.selected_left[i], s.selected_right[i])))
        ELSE IF KeyCountOk(s.selected_left, s.selected_right)
        THEN [Logged(s, "key_count") EXCEPT !.pc = "dtype"]
        ELSE Return(Logged(s, "key_count"), Err("ComputeError", "key_count", << >>))

\* _join_impl: the number of key columns of the two sides must be equal.
StepKeyCount(s) ==
    IF KeyCountOk(s.selected_left, s.selected_right)
    THEN [Logged(s, "key_count") EXCEPT !.pc = "dtype"]
    ELSE Return(Logged(s, "key_count"), Err("ComputeError", "key_count", << >>))

\* _join_impl: the first key pair of different dtype is reported.
StepDtype(s) ==
    LET i == DtypeMismatch(s.selected_left, s.selected_right)
    IN  IF i = 0
        THEN [Logged(s, "dtype") EXCEPT !.pc = "categorical"]
        ELSE Return(Logged(s, "dtype"),
                    Err("ComputeError", "dtype",
                        DtypeErrorNames(s.selected_left[i], s.selected_right[i])))

\* _join_impl: the categorical key pairs of different sources are made
\* compatible, in the selected copies.
StepCategorical(s) ==
    LET n == Len(s.selected_left)
        pair(i) == ReconcilePair(s.selected_left[i], s.selected_right[i])
    IN  [Logged(s, "categorical") EXCEPT
           !.selected_left = [i \in 1..n |-> pair(i)[1]],
           !.selected_right = [i \in 1..n |-> pair(i)[2]],
           !.pc = "dispatch"]

-----------------------------------------------------------------------------
(* The dispatch: the matcher invocation of every branch. *)

Flag(b) == IF b THEN "true" ELSE "false"

\* The matcher of join type `how` is invoked on the key frames lf and rf with
\* the given null-equality flag and validation mode, and returns `pairs`.
Invoke(s, how, lf, rf, join_nulls, validation, pairs) ==
    [Logged(s, "match") EXCEPT
       !.seen = [called |-> TRUE, how |-> how, left |-> lf, right |-> rf,
                 join_nulls |-> join_nulls, validation |-> validation,
                 pairs |-> pairs],
       !.ids = pairs,
       !.pc = "slice"]

\* A matcher that is handed the validation mode checks the cardinality of the
\* keys itself and fails instead of returning pairs (seen.pairs is then what
\* it would have returned).
InvokeValidated(s, how, lf, rf, pairs) ==
    LET t == Invoke(s, how, lf, rf, Flag(s.call.join_nulls), s.call.validation, pairs)
    IN  IF CardinalityOk(s.call.validation, KeySeqOf(lf), KeySeqOf(rf))
        THEN t
        ELSE Return([t EXCEPT !.ids = s.ids],
                    Err("ValidationError", "cardinality", << >>))

\* The null-equality flag the single-key dispatch hands to the matcher of
\* each join type: _semi_anti_join_from_series is not given args.join_nulls.
SingleKeyNullFlag(how, join_nulls) ==
    IF how \in {"Semi", "Anti"} THEN "unset" ELSE Flag(join_nulls)

\* The "by" arguments of an as-of join: both, none, or a panic.
AsOfBy(left_by, right_by) ==
    CASE left_by /\ right_by   -> "by"
      [] ~left_by /\ ~right_by -> "plain"
      [] OTHER                 -> "panic"

\* _join_impl, single key: the match on args.how.  _inner_join_from_series
\* first checks the categorical sources, then calls _sort_or_hash_inner with
\* args.validation and args.join_nulls.
StepMatchSingle(s) ==
    LET c  == s.call
        l  == s.selected_left[1]
        r  == s.selected_right[1]
        lf == to_physical(<<l>>)
        rf == to_physical(<<r>>)
        jn == IF SingleKeyNullFlag(c.how, c.join_nulls) = "unset"
              THEN s.semi_anti_nulls ELSE c.join_nulls
    IN  CASE c.how = "Inner" ->
               IF ~_check_categorical_src(l, r)
               THEN Return(Logged(s, "check_categorical_src"),
                           Err("ComputeError", "categorical_src", << >>))
               ELSE InvokeValidated(s, "Inner", lf, rf,
                                    Unzip(InnerPairs(lf, rf, FALSE, c.join_nulls)))
          [] c.how = "Left" ->
               InvokeValidated(s, "Left", lf, rf, Unzip(LeftPairs(lf, rf, c.join_nulls)))
          [] c.how = "Outer" ->
               InvokeValidated(s, "Outer", lf, rf, Unzip(OuterPairs(lf, rf, c.join_nulls)))
          [] c.how \in {"Semi", "Anti"} ->
               Invoke(s, c.how, lf, rf, SingleKeyNullFlag(c.how, c.join_nulls), "unset",
                      [l |-> SemiAntiIdx(lf, rf, c.how = "Anti", jn), r |-> << >>])
          [] c.how = "AsOf" ->
               LET by == AsOfBy(c.left_by, c.right_by)
               IN  IF by = "panic"
                   THEN Return(Logged(s, "asof_by"), Panic("expected by arguments on both sides"))
                   ELSE Invoke(s, "AsOf", lf, rf, "unset", "unset",
                               Unzip(AsofPairs(l.vals, r.vals, column(s.left_df, "g").vals,
                                               column(s.other, "g").vals, by = "by")))
          [] OTHER -> Return(s, Panic("unreachable"))

\* The key frame of the left side that the multi-key left join hands to the
\* matcher: the frame is sliced before the match.
LeftKeyFrame(frame, sl) ==
    IF sl = << >> THEN frame ELSE SliceFrame(frame, sl[1], sl[2])

\* _join_impl, several keys (any number other than one): the physical key
\* frames and the match on args.how.
StepMatchMulti(s) ==
    LET c  == s.call
        lf == to_physical(s.selected_left)
        rf == to_physical(s.selected_right)
        jn == c.join_nulls
    IN  CASE c.how = "Inner" ->
               LET swap == det_hash_prone_order(lf, rf)
                   f == HashProneFrames(lf, rf)
               IN  Invoke(s, "Inner", lf, rf, Flag(jn), "unset",
                          Unzip(_inner_join_multiple_keys(f[1], f[2], swap, jn)))
          [] c.how = "Left" ->
               LET sliced == LeftKeyFrame(lf, c.slice)
                   t == Invoke(IF c.slice = << >> THEN s ELSE Logged(s, "slice_keys"),
                               "Left", sliced, rf, Flag(jn), "unset",
                               Unzip(LeftPairs(sliced, rf, jn)))
               IN  IF remove_selected_panics(s.selected_right)
                   THEN Return(t, Panic("remove_selected"))
                   ELSE t
          [] c.how = "Outer" ->
               LET swap == det_hash_prone_order(lf, rf)
                   f == HashProneFrames(lf, rf)
               IN  Invoke(s, "Outer", lf, rf, Flag(jn), "unset",
                          Unzip(_outer_join_multiple_keys(f[1], f[2], swap, jn)))
          [] c.how = "AsOf" ->
               Return(Logged(s, "asof_multiple_keys"),
                      Err("ComputeError", "asof_multiple_keys", << >>))
          [] c.how \in {"Semi", "Anti"} ->
               Invoke(s, c.how, lf, rf, Flag(jn), "unset",
                      [l |-> SemiAntiIdx(lf, rf, c.how = "Anti", jn), r |-> << >>])
          [] OTHER -> Return(s, Panic("unreachable"))

-----------------------------------------------------------------------------
(* After the match: slice of the index sequences, the two gathers of        *)
(* POOL.join, and the assembly of the result. *)

SingleKey(s) == Len(s.selected_left) = 1

\* The index sequences are sliced by args.slice (slice_slice, or
\* slice_offsets and slice, of both sequences with the same arguments).
StepSlice(s) ==
    [(IF s.call.slice = << >> THEN s ELSE Logged(s, "slice_ids")) EXCEPT
       !.ids = SliceIds(s.ids, s.call.slice),
       !.task = [l |-> "todo", r |-> IF s.call.how \in {"Semi", "Anti"} THEN "none" ELSE "todo"],
       !.pc = "gather"]

\* The left task: the left table gathered by the left indices.
StepGatherLeft(s) ==
    [Logged(s, "gather_left") EXCEPT
       !.parts = [@ EXCEPT !.l = take(s.left_df, s.ids.l)],
       !.task = [@ EXCEPT !.l = "done"]]

\* The table the right task gathers from: the right table without its key
\* columns (inner, left), the whole right table (outer), the right table
\* without the key when both keys have one name (as-of).
RightSource(s) ==
    CASE s.call.how = "Outer" -> s.other
      [] s.call.how = "AsOf" ->
           IF s.selected_left[1].name = s.selected_right[1].name
           THEN drop(s.other, s.selected_right[1].name) ELSE s.other
      [] SingleKey(s) -> drop(s.other, s.selected_right[1].name)
      [] OTHER -> remove_selected(s.other, s.selected_right)

\* The right task; in the multi-key inner join it calls remove_selected,
\* which panics when no key column was selected.
StepGatherRight(s) ==
    IF s.call.how = "Inner" /\ ~SingleKey(s) /\ remove_selected_panics(s.selected_right)
    THEN [Logged(s, "gather_right") EXCEPT !.task = [@ EXCEPT !.r = "panic"]]
    ELSE [Logged(s, "gather_right") EXCEPT
            !.parts = [@ EXCEPT !.r = take(RightSource(s), s.ids.r)],
            !.task = [@ EXCEPT !.r = "done"]]

\* Mutant: an outer join is never coalesced.
StepFinishUncoalesced(s) ==
    IF s.task.r = "panic" THEN Return(Logged(s, "finish"), Panic("remove_selected"))
    ELSE IF s.call.how \in {"Semi", "Anti"} THEN Return(Logged(s, "finish"), Ok(s.parts.l))
    ELSE Return(Logged(s, "finish"), Ok(_finish_join(s.parts.l, s.parts.r)))

\* Both tasks have ended: _finish_join, and coalesce_outer_join for an outer
\* join that coalesces; a semi or anti join returns the left projection.
StepFinish(s) ==
    LET joined == _finish_join(s.parts.l, s.parts.r)
    IN  CASE s.task.r = "panic" -> Return(Logged(s, "finish"), Panic("remove_selected"))
          [] s.call.how \in {"Semi", "Anti"} -> Return(Logged(s, "finish"), Ok(s.parts.l))
          [] s.call.how = "Outer" /\ s.call.coalesce ->
               Return(Logged(s, "finish"),
                      Ok(coalesce_outer_join(joined, Names(s.selected_left),
                                             Names(s.selected_right), s.left_df)))
          [] OTHER -> Return(Logged(s, "finish"), Ok(joined))

\* Mutant: the result is assembled as soon as the left task has ended.
TasksEndedLeft(s) == s.task.l # "todo"

TasksEnded(s) == s.task.l # "todo" /\ s.task.r # "todo"

-----------------------------------------------------------------------------
(* The call as a function: the steps in program order, the left task first. *)

StepOf(s) ==
    CASE s.pc = "join" -> StepJoin(s)
      [] s.pc = "is_valid_join" -> StepIsValidJoin(s)
      [] s.pc = "cross" -> StepCross(s)
      [] s.pc = "rechunk" -> StepRechunk(s)
      [] s.pc = "key_count" -> StepKeyCount(s)
      [] s.pc = "dtype" -> StepDtype(s)
      [] s.pc = "categorical" -> StepCategorical(s)
      [] s.pc = "dispatch" -> IF SingleKey(s) THEN StepMatchSingle(s) ELSE StepMatchMulti(s)
      [] s.pc = "slice" -> StepSlice(s)
      [] s.pc = "gather" ->
           IF s.task.l = "todo" THEN StepGatherLeft(s)
           ELSE IF s.task.r = "todo" THEN StepGatherRight(s)
           ELSE StepFinish(s)
      [] OTHER -> s

RECURSIVE Run(_)
Run(s) == IF s.pc = "done" THEN s ELSE Run(StepOf(s))

\* The result of the call `c`.
RunJoin(c, san) == Run(InitState(c, san)).out

-----------------------------------------------------------------------------
(* The specification. *)

\* The single-key semi/anti matcher is not told how to treat null keys; both
\* treatments are considered.
NullTreatments(c) ==
    IF c.how \in {"Semi", "Anti"} /\ Len(c.left_on) = 1 THEN BOOLEAN ELSE {TRUE}

Init == \E c \in Calls : \E san \in NullTreatments(c) :
          Starts(InitState(c, san))

Join == pc = "join" /\ Becomes(StepJoin(Cur))
IsValidJoin == pc = "is_valid_join" /\ Becomes(StepIsValidJoin(Cur))
CrossShortcut == pc = "cross" /\ Becomes(StepCross(Cur))
Rechunk == pc = "rechunk" /\ Becomes(StepRechunk(Cur))
KeyCount == pc = "key_count" /\ Becomes(StepKeyCount(Cur))
Dtype == pc = "dtype" /\ Becomes(StepDtype(Cur))
Categorical == pc = "categorical" /\ Becomes(StepCategorical(Cur))
MatchSingle == pc = "dispatch" /\ SingleKey(Cur) /\ Becomes(StepMatchSingle(Cur))
MatchMulti == pc = "dispatch" /\ ~SingleKey(Cur) /\ Becomes(StepMatchMulti(Cur))
Slice == pc = "slice" /\ Becomes(StepSlice(Cur))
GatherLeft == pc = "gather" /\ task.l = "todo" /\ Becomes(StepGatherLeft(Cur))
GatherRight == pc = "gather" /\ task.r = "todo" /\ Becomes(StepGatherRight(Cur))
Finish == pc = "gather" /\ TasksEnded(Cur) /\ Becomes(StepFinish(Cur))

Next ==
    \/ Join \/ IsValidJoin \/ CrossShortcut \/ Rechunk \/ KeyCount \/ Dtype
    \/ Categorical \/ MatchSingle \/ MatchMulti \/ Slice
    \/ GatherLeft \/ GatherRight \/ Finish

Spec == Init /\ [][Next]_vars

-----------------------------------------------------------------------------
(* Properties of the calls. *)

Done == pc = "done"
Keyed == call.how # "Cross"

\* Whether event a occurs in the log, and before the first occurrence of b.
Occurs(a) == \E i \in 1..Len(log) : log[i] = a
Before(a, b) ==
    \E i \in 1..Len(log) : log[i] = a /\ \A j \in 1..i : log[j] # b

\* What the inputs of the call violate, judged on the inputs alone.
KeyDtype(side, name) ==
    IF name = "k" THEN (IF side = "l" THEN call.ldt ELSE call.rdt)
    ELSE (IF side = "l" THEN "Int" ELSE call.rgdt)

MismatchingPairs ==
    {i \in 1..Min2(Len(call.left_on), Len(call.right_on)) :
        KeyDtype("l", call.left_on[i]) # KeyDtype("r", call.right_on[i])}

FirstMismatch == CHOOSE i \in MismatchingPairs : \A j \in MismatchingPairs : i <= j

InputKeys(rows, on) ==
    [i \in 1..Len(rows) |-> [n \in 1..Len(on) |-> IF on[n] = "k" THEN rows[i][1] ELSE rows[i][2]]]

ViolatesKeyCount == Len(call.left_on) # Len(call.right_on)
ViolatesDtype == MismatchingPairs # {}
ViolatesCardinality ==
    ~CardinalityOk(call.validation, InputKeys(call.lrows, call.left_on),
                   InputKeys(call.rrows, call.right_on))
Unsupported == ~is_valid_join(call.validation, call.how, Len(call.left_on))

Rejected(check) == out.kind = "Err" /\ out.check = check

C2_ClaimedOrder ==
    (Done /\ Keyed /\ ~Unsupported) =>
      /\ ViolatesKeyCount => Rejected("key_count")
      /\ (~ViolatesKeyCount /\ ViolatesCardinality) => Rejected("cardinality")
      /\ (~ViolatesKeyCount /\ ~ViolatesCardinality /\ ViolatesDtype) => Rejected("dtype")

\* C2 (amended): the checks run in the order validation-mode support, key
\* count, dtype, and the cardinality last (inside the matcher); the error is
\* that of the first check, in this order, that the input violates.
C2_CodeOrder ==
    (Done /\ Keyed) =>
      /\ Unsupported => Rejected("is_valid_join")
      /\ (~Unsupported /\ ViolatesKeyCount) => Rejected("key_count")
      /\ (~Unsupported /\ ~ViolatesKeyCount /\ ViolatesDtype) => Rejected("dtype")
      /\ (~Unsupported /\ ~ViolatesKeyCount /\ ~ViolatesDtype /\ ViolatesCardinality)
            => Rejected("cardinality")

\* C2 witness: an input that violates both the dtype agreement and the
\* cardinality is rejected for the dtype.
C2_Witness ==
    Done /\ Keyed /\ ~ViolatesKeyCount /\ ViolatesDtype /\ ViolatesCardinality
         /\ Rejected("dtype")

\* The same call without a slice, and its result.
Unsliced == RunJoin([call EXCEPT !.slice = << >>], semi_anti_nulls)

\* C3: slicing law: the result of a join with slice (offset, len) is rows
\* [offset, offset + len) of the result of the same join without a slice, for
\* every join type, key count and entry point.
C3_SlicingLaw ==
    (Done /\ call.slice # << >> /\ call.how # "AsOf" /\ out.kind = "Ok") =>
       /\ Unsliced.kind = "Ok"
       /\ out.df = slice(Unsliced.df, call.slice[1], call.slice[2])

\* C4: in every keyed branch the matcher sees the full key frames of both
\* sides, no key frame is sliced before the match, and the slice is applied
\* to the index sequences the matcher returned, before any gather.
C4_SliceAfterMatch ==
    /\ seen.called =>
         /\ seen.left = to_physical(selected_left)
         /\ seen.right = to_physical(selected_right)
    /\ (seen.called /\ pc = "gather") => ids = SliceIds(seen.pairs, call.slice)
    /\ (Occurs("gather_left") \/ Occurs("gather_right")) =>
         (call.slice # << >> => Before("slice_ids", "gather_left")
                                /\ Before("slice_ids", "gather_right")
                                /\ Before("match", "slice_ids"))

\* The key tuple of left row i / right row j that the matcher was handed.
SeenLeftKey(i) == KeyTuple(seen.left, i)
SeenRightKey(j) == KeyTuple(seen.right, j)

\* C5: the matcher of every keyed join type, single-key or multi-key, is
\* handed the caller's null-equality flag, and matches accordingly: without
\* null equality a left row with a null key has no right partner, is in no
\* semi result and is in every anti result.
C5_NullFlagReachesMatcher ==
    (seen.called /\ call.how \in {"Inner", "Left", "Outer", "Semi", "Anti"}) =>
       /\ seen.join_nulls = Flag(call.join_nulls)
       /\ ~call.join_nulls =>
            /\ \A n \in 1..Len(seen.pairs.l) :
                 (seen.pairs.l[n] # NULL /\ HasNull(SeenLeftKey(seen.pairs.l[n]))) =>
                    /\ call.how # "Semi"
                    /\ call.how \in {"Inner", "Left", "Outer"} => seen.pairs.r[n] = NULL
            /\ call.how = "Anti" =>
                 \A i \in 1..FrameHeight(seen.left) :
                    HasNull(SeenLeftKey(i)) => i \in Range(seen.pairs.l)

\* C6: an as-of join with "by" keys on exactly one side is rejected with an
\* error returned as a value: the call does not end abnormally and gives no
\* output table.
C6_AsOfByRejected ==
    (Done /\ call.how = "AsOf" /\ call.left_by # call.right_by) =>
        out.kind = "Err" /\ out.df = << >>

\* C7: a matcher is only reached with at least one key; a keyed join with no
\* key column on either side is rejected with an error value before any
\* matching or assembly.
C7_ZeroKeysRejected ==
    /\ seen.called => Len(selected_left) >= 1
    /\ (Done /\ Keyed /\ Len(call.left_on) = 0 /\ Len(call.right_on) = 0) =>
          /\ out.kind = "Err"
          /\ ~seen.called /\ ~Occurs("gather_left") /\ ~Occurs("finish")

\* C8 (as claimed): a keyed join whose key lists differ in length returns an
\* InvalidInput error, invokes no matcher and gives no output table (stated
\* for the calls whose validation mode is supported, which reach the
\* key-count check).
C8_KeyCountInvalidInput ==
    (Done /\ Keyed /\ ~Unsupported /\ ViolatesKeyCount) =>
        /\ out.kind = "Err" /\ out.err = "InvalidInput"
        /\ ~seen.called /\ out.df = << >>

\* C8 (amended): such a call returns a ComputeError error value (from the
\* key-count check or, before it, from the validation-mode support check),
\* invokes no matcher, gathers nothing and gives no output table, for every
\* join type and validation mode.
C8_KeyCountRejected ==
    (Done /\ Keyed /\ ViolatesKeyCount) =>
        /\ out.kind = "Err" /\ out.err = "ComputeError"
        /\ out.check \in {"key_count", "is_valid_join"}
        /\ ~Unsupported => out.check = "key_count"
        /\ ~seen.called /\ ~Occurs("match") /\ ~Occurs("gather_left")
        /\ ~Occurs("gather_right") /\ out.df = << >>

\* C8 witness: a join with one left and two right keys is rejected by the
\* key-count check under a validation mode other than ManyToMany.
C8_Witness ==
    /\ Done /\ Keyed /\ Len(call.left_on) = 1 /\ Len(call.right_on) = 2
    /\ call.validation = "OneToMany" /\ Rejected("key_count")

\* What the dtype error of the first mismatching pair has to name.
FirstMismatchNames ==
    LET l == call.left_on[FirstMismatch]
        r == call.right_on[FirstMismatch]
    IN  <<l, KeyDtype("l", l), r, KeyDtype("r", r)>>

\* C9 (as claimed): whenever paired key columns differ in dtype (one-sided
\* categorical included) the join is rejected before matching with an error
\* that names the first mismatching pair's columns and types (stated for the
\* calls whose validation mode is supported).
C9_MismatchAlwaysNamed ==
    (Done /\ Keyed /\ ~Unsupported /\ ViolatesDtype) =>
        /\ out.kind = "Err" /\ out.names = FirstMismatchNames
        /\ ~seen.called

\* Pairs of two categoricals are reconciled: after the categorical step both
\* selected keys have one dictionary and still stand for the strings of the
\* input columns.
Reconciled ==
    \A i \in 1..Len(selected_left) :
       (selected_left[i].dtype = "Cat" /\ selected_right[i].dtype = "Cat") =>
          /\ selected_left[i].dict = selected_right[i].dict
          /\ Decode(selected_left[i]) = Decode(column(left_df, call.left_on[i]))
          /\ Decode(selected_right[i]) = Decode(column(other, call.right_on[i]))

\* C9 (amended): when the validation mode is supported and the key lists
\* have equal length, a dtype difference of any key pair (one-sided
\* categorical included) is rejected before matching with an error naming the
\* first mismatching pair's columns and types; pairs of two categoricals are
\* not rejected for their dtype but reconciled.
C9_MismatchRejected ==
    /\ (Done /\ Keyed /\ ~Unsupported /\ ~ViolatesKeyCount /\ ViolatesDtype) =>
          /\ Rejected("dtype") /\ out.names = FirstMismatchNames
          /\ ~seen.called /\ ~Occurs("match")
    /\ (Done /\ Keyed /\ ~ViolatesDtype) => ~Rejected("dtype")
    /\ pc \in {"dispatch", "slice", "gather"} => Reconciled

\* C9 witness: a categorical key paired with a string key is rejected by the
\* dtype check.
C9_Witness ==
    /\ Done /\ Keyed /\ call.left_on = <<"k">> /\ call.right_on = <<"k">>
    /\ call.ldt = "Cat" /\ call.rdt = "Str"
    /\ Rejected("dtype") /\ out.names = <<"k", "Cat", "k", "Str">>

\* The same call with other key lists gives the same result.
KeysIgnored ==
    \A lo \in KeyLists, ro \in KeyLists :
       RunJoin([call EXCEPT !.left_on = lo, !.right_on = ro], semi_anti_nulls) = out

\* The table is the cartesian product of the two inputs: every pair of a left
\* and a right row exactly once, and nothing else.
IsCartesianProduct(df) ==
    /\ height(df) = height(left_df) * height(other)
    /\ HasColumn(df, "v") /\ HasColumn(df, "v" \o Suffix)
    /\ \A i \in 1..height(left_df), j \in 1..height(other) :
          Cardinality({n \in 1..height(df) :
                 /\ column(df, "v").vals[n] = column(left_df, "v").vals[i]
                 /\ column(df, "v" \o Suffix).vals[n] = column(other, "v").vals[j]}) = 1

TwoSided == call.how \in {"Inner", "Left", "Outer", "AsOf"}

\* C11: the two index sequences are sliced with the same offset and length
\* and so have one length when they are gathered; the two gathered projections
\* have that number of rows before they are concatenated; and the output of a
\* successful keyed join has as many rows as the post-slice match sequence.
C11_RowCountIsMatchCount ==
    /\ (pc = "gather" /\ TwoSided) =>
          /\ Len(ids.l) = Len(ids.r)
          /\ ids = SliceIds(seen.pairs, call.slice)
    /\ (pc = "gather" /\ task.l = "done") => height(parts.l) = Len(ids.l)
    /\ (pc = "gather" /\ task.r = "done") => height(parts.r) = Len(ids.r)
    /\ (pc = "gather" /\ task.l = "done" /\ task.r = "done") =>
          height(parts.l) = height(parts.r)
    /\ (Done /\ Keyed /\ out.kind = "Ok") =>
          /\ height(out.df) = Len(ids.l)
          /\ \A c \in 1..Len(out.df) : Len(out.df[c].vals) = Len(ids.l)

\* C11 witness: a multi-key inner join with two matches and the slice (1, 1)
\* returns one row.
C11_Witness ==
    /\ Done /\ call.how = "Inner" /\ Len(call.left_on) = 2 /\ call.slice = <<1, 1>>
    /\ Len(seen.pairs.l) = 2 /\ Len(ids.l) = 1 /\ out.kind = "Ok" /\ height(out.df) = 1

\* Row n of a table, and the set of its rows.
Row(df, n) == [c \in 1..Len(df) |-> df[c].vals[n]]
RowSet(df) == {Row(df, n) : n \in 1..height(df)}

PairSet(p) == {<<p.l[n], p.r[n]>> : n \in 1..Len(p.l)}

\* A multi-key inner or outer join: the joins the build-probe optimizer acts on.
MultiKeyHashed == call.how \in {"Inner", "Outer"} /\ Len(call.left_on) # 1

\* The pairs the matcher returns when the sides are not exchanged.
UnswappedPairs ==
    IF call.how = "Inner"
    THEN Unzip(InnerPairs(seen.left, seen.right, FALSE, call.join_nulls))
    ELSE Unzip(OuterPairs(seen.left, seen.right, call.join_nulls))

\* The output assembled from the unswapped pairs.
UnswappedOut ==
    LET p == SliceIds(UnswappedPairs, call.slice)
        joined == _finish_join(take(left_df, p.l), take(RightSource(Cur), p.r))
    IN  IF call.how = "Outer" /\ call.coalesce
        THEN coalesce_outer_join(joined, Names(selected_left), Names(selected_right), left_df)
        ELSE joined

ValueAt(df, name, i) == IF i = NULL THEN NULL ELSE column(df, name).vals[i]

Position(df, name) == CHOOSE i \in 1..Len(df) : df[i].name = name

\* C12: for a multi-key inner or outer join the result does not depend on the
\* swap of the build-probe optimizer: the pairs are those of the unswapped
\* match, the left indices index the caller's left table and the right indices
\* the caller's right table, the left columns precede the right columns, and
\* the coalesced key of an outer join takes the caller's left value first -
\* whether the left table is the smaller, the equal or the larger one.
C12_SwapInvariant ==
    /\ (MultiKeyHashed /\ seen.called) =>
          /\ PairSet(seen.pairs) = PairSet(UnswappedPairs)
          /\ Len(seen.pairs.l) = Len(UnswappedPairs.l)
          /\ \A n \in 1..Len(seen.pairs.l) :
                /\ seen.pairs.l[n] \in 0..height(left_df)
                /\ seen.pairs.r[n] \in 0..height(other)
    /\ (MultiKeyHashed /\ Done /\ out.kind = "Ok") =>
          /\ SubSeq(Names(out.df), 1, Len(left_df)) = Names(left_df)
          /\ Position(out.df, "v") < Position(out.df, "v" \o Suffix)
          /\ \A n \in 1..height(out.df) :
                /\ column(out.df, "v").vals[n] = ValueAt(left_df, "v", ids.l[n])
                /\ column(out.df, "v" \o Suffix).vals[n] = ValueAt(other, "v", ids.r[n])
                /\ (call.how = "Outer" /\ call.coalesce) =>
                      \A k \in Range(call.left_on) :
                         column(out.df, k).vals[n] =
                            IF ids.l[n] # NULL THEN ValueAt(left_df, k, ids.l[n])
                            ELSE ValueAt(other, k, ids.r[n])
          /\ call.slice = << >> =>
                /\ RowSet(out.df) = RowSet(UnswappedOut)
                /\ height(out.df) = height(UnswappedOut)
                /\ Names(out.df) = Names(UnswappedOut)

\* C12 witness: a multi-key inner join whose left table is the smaller one (the
\* sides are exchanged) pairs its one left row with both right rows.
C12_Witness ==
    /\ Done /\ call.how = "Inner" /\ Len(call.left_on) = 2 /\ call.slice = << >>
    /\ height(left_df) = 1 /\ height(other) = 2
    /\ det_hash_prone_order(seen.left, seen.right)
    /\ out.kind = "Ok" /\ height(out.df) = 2
    /\ column(out.df, "v").vals = <<11, 11>>
    /\ column(out.df, "v" \o Suffix).vals = <<21, 22>>

\* The key tuples of the two input tables, as the caller sees them (logical
\* values), and whether left row i and right row j have equal key tuples under
\* the call's null-equality flag.
LeftInputKeys == InputKeys(call.lrows, call.left_on)
RightInputKeys == InputKeys(call.rrows, call.right_on)
RowsMatch(i, j) == KeysMatch(LeftInputKeys[i], RightInputKeys[j], call.join_nulls)

\* The output rows that pair left row i with right row j (the payload column
\* "v" identifies the row of each side).
RowsPairing(df, i, j) ==
    {n \in 1..height(df) :
        /\ column(df, "v").vals[n] = ValueAt(left_df, "v", i)
        /\ column(df, "v" \o Suffix).vals[n] = ValueAt(other, "v", j)}

\* C13: an inner join without a slice, single-key or multi-key, returns
\* exactly one row for each pair of a left and a right row with equal key
\* tuples (equal under the null-equality flag) and no other row; each row
\* carries the columns of its left row; the example of the two id columns
\* gives the four rows pairing each left id = 2 with each right id = 2.
C13_InnerExactPairs ==
    /\ (Done /\ call.how = "Inner" /\ call.slice = << >> /\ out.kind = "Ok") =>
          /\ \A i \in 1..height(left_df), j \in 1..height(other) :
                Cardinality(RowsPairing(out.df, i, j)) = IF RowsMatch(i, j) THEN 1 ELSE 0
          /\ height(out.df) =
                Cardinality({p \in (1..height(left_df)) \X (1..height(other)) :
                                RowsMatch(p[1], p[2])})
          /\ \A n \in 1..height(out.df) : \A c \in 1..Len(left_df) :
                \E i \in 1..height(left_df) :
                   /\ column(out.df, "v").vals[n] = ValueAt(left_df, "v", i)
                   /\ out.df[c].vals[n] = left_df[c].vals[i]
    /\ (Done /\ call.how = "Inner" /\ Len(call.left_on) >= 1 /\ ~Unsupported
          /\ ~ViolatesKeyCount /\ ~ViolatesDtype /\ ~ViolatesCardinality) =>
          out.kind = "Ok"
    /\ (Done /\ call \in ExampleCalls) =>
          /\ out.kind = "Ok" /\ height(out.df) = 4
          /\ column(out.df, "k").vals = <<2, 2, 2, 2>>
          /\ \A i \in {2, 3}, j \in {1, 2} : Cardinality(RowsPairing(out.df, i, j)) = 1

\* C13 witness: the inner join of L.id = [1, 2, 2, 3] and R.id = [2, 2, 4] on
\* id has returned four rows.
C13_Witness ==
    /\ Done /\ call \in ExampleCalls /\ call.how = "Inner"
    /\ column(left_df, "k").vals = <<1, 2, 2, 3>> /\ column(other, "k").vals = <<2, 2, 4>>
    /\ out.kind = "Ok" /\ height(out.df) = 4

\* The result of the semi (anti) join of the same tables on the same keys with
\* the same arguments.
SemiOut == IF call.how = "Semi" THEN out ELSE RunJoin([call EXCEPT !.how = "Semi"], semi_anti_nulls)
AntiOut == IF call.how = "Anti" THEN out ELSE RunJoin([call EXCEPT !.how = "Anti"], semi_anti_nulls)

\* How often left row i is in a table of left rows.
TimesIn(df, i) ==
    Cardinality({n \in 1..height(df) : column(df, "v").vals[n] = ValueAt(left_df, "v", i)})

HasMatch(i) == \E j \in 1..height(other) : RowsMatch(i, j)

\* C14: without a slice the semi and the anti join of the same tables, keys
\* and null-equality flag partition the left rows: every left row is in
\* exactly one of the two results, once; the anti result holds the left rows
\* without a match and the semi result those with at least one.
C14_SemiAntiPartition ==
    (Done /\ call.how \in {"Semi", "Anti"} /\ Len(call.left_on) >= 1
          /\ call.slice = << >> /\ out.kind = "Ok") =>
       /\ SemiOut.kind = "Ok" /\ AntiOut.kind = "Ok"
       /\ \A i \in 1..height(left_df) :
             /\ TimesIn(SemiOut.df, i) + TimesIn(AntiOut.df, i) = 1
             /\ TimesIn(SemiOut.df, i) = IF HasMatch(i) THEN 1 ELSE 0
             /\ TimesIn(AntiOut.df, i) = IF HasMatch(i) THEN 0 ELSE 1
       /\ height(SemiOut.df) + height(AntiOut.df) = height(left_df)

\* The name under which the right key column of key pair i is in the output
\* of an uncoalesced join: suffixed when a left column has its name.
OutRightKey(i) ==
    IF HasColumn(left_df, call.right_on[i]) THEN call.right_on[i] \o Suffix
    ELSE call.right_on[i]

ColumnsNamed(df, name) == {c \in 1..Len(df) : df[c].name = name}

\* C15: an outer join that coalesces merges every key pair into one column,
\* under the left key's name, whose value in each row is the left key value
\* when the row has a left row and the right key value otherwise, and the
\* right key column of the pair is not in the output; an outer join that does
\* not coalesce keeps the key columns of both sides, each with the values of
\* its own side.
C15_OuterCoalesce ==
    (Done /\ call.how = "Outer" /\ Len(call.left_on) >= 1 /\ out.kind = "Ok") =>
       \A i \in 1..Len(call.left_on) :
          LET l == call.left_on[i]
              r == call.right_on[i]
          IN  /\ Cardinality(ColumnsNamed(out.df, l)) = 1
              /\ IF call.coalesce
                 THEN /\ ColumnsNamed(out.df, OutRightKey(i)) = {}
                      /\ \A n \in 1..height(out.df) :
                            column(out.df, l).vals[n] =
                               IF ids.l[n] # NULL THEN ValueAt(left_df, l, ids.l[n])
                               ELSE ValueAt(other, r, ids.r[n])
                 ELSE /\ Cardinality(ColumnsNamed(out.df, OutRightKey(i))) = 1
                      /\ \A n \in 1..height(out.df) :
                            /\ column(out.df, l).vals[n] = ValueAt(left_df, l, ids.l[n])
                            /\ column(out.df, OutRightKey(i)).vals[n] = ValueAt(other, r, ids.r[n])

\* C15 witness: a coalescing outer join has returned a row without a right
\* row and a row without a left row, whose key is the right key value.
C15_Witness ==
    /\ Done /\ call.how = "Outer" /\ call.coalesce /\ out.kind = "Ok"
    /\ Len(call.left_on) = 2 /\ ~HasColumn(out.df, "k" \o Suffix)
    /\ \E n, m \in 1..height(out.df) :
          /\ ids.l[n] = NULL /\ column(out.df, "k").vals[n] = 1
          /\ column(out.df, "g").vals[n] = 2
          /\ ids.r[m] = NULL /\ column(out.df, "g").vals[m] = 1

\* The input tables and their chunks as they were when the call started.
InputLeft == InitState(call, semi_anti_nulls).left_df
InputRight == InitState(call, semi_anti_nulls).other
InputChunks == InitState(call, semi_anti_nulls).chunks

\* C16: a join call never changes its inputs: in every state of every call,
\* successful or failing, both input tables have the columns, names, row
\* order, values and chunks they had when the call started; a rechunk works
\* on clones, the categorical reconciliation re-encodes the selected key
\* copies only, and the right key columns are dropped from the right
\* projection only.
C16_InputsUnchanged ==
    /\ left_df = InputLeft /\ other = InputRight /\ chunks = InputChunks
    /\ \A side \in {"l", "r"} :
          cow[side] = "Owned" => /\ should_rechunk(chunks[side])
                                 /\ Occurs("rechunk")
    /\ pc \in {"dispatch", "slice", "gather", "done"} =>
          \A i \in 1..Len(selected_left) :
             /\ i <= Len(call.left_on) => HasColumn(left_df, call.left_on[i])
             /\ i <= Len(call.right_on) => HasColumn(other, call.right_on[i])
    /\ Names(left_df) = <<"k", "g", "v">> /\ Names(other) = <<"k", "g", "v">>

\* C16 witness: a successful multi-key inner join on categorical keys that
\* has rechunked a clone of the left table, re-encoded the selected right key
\* and dropped the key columns from the right projection.
C16_Witness ==
    /\ Done /\ out.kind = "Ok" /\ call.how = "Inner" /\ Len(call.left_on) = 2
    /\ cow.l = "Owned" /\ chunks.l = 2
    /\ selected_right[1].dtype = "Cat" /\ height(other) >= 1
    /\ selected_right[1].vals # column(other, "k").vals
    /\ ~HasColumn(parts.r, "k") /\ HasColumn(other, "k")
    /\ left_df = InputLeft /\ other = InputRight

\* The call run step by step in program order, the left task first.
Sequential == Run(InitState(call, semi_anti_nulls))

\* The log with the two gather events in the other order.
SwapGathers(l) ==
    [i \in 1..Len(l) |->
        IF l[i] = "gather_left" THEN "gather_right"
        ELSE IF l[i] = "gather_right" THEN "gather_left" ELSE l[i]]

\* What a step leaves alone of the other task's state and of what both tasks
\* read.
TaskInputsUnchanged ==
    /\ left_df' = left_df /\ other' = other /\ ids' = ids
    /\ selected_left' = selected_left /\ selected_right' = selected_right
    /\ call' = call /\ pc' = pc /\ out' = out

GatherSteps ==
    /\ GatherLeft => /\ TaskInputsUnchanged /\ parts'.r = parts.r /\ task'.r = task.r
                      /\ parts'.l = take(left_df, ids.l)
    /\ GatherRight => /\ TaskInputsUnchanged /\ parts'.l = parts.l /\ task'.l = task.l
                       /\ task'.r = "done" => parts'.r = take(RightSource(Cur), ids.r)
    /\ Finish => task.l = "done" /\ task.r \in {"done", "none", "panic"}

GatherStates ==
    /\ (pc = "gather" /\ task.l = "todo") => parts.l = << >>
    /\ (pc = "gather" /\ task.r \in {"todo", "none"}) => parts.r = << >>
    /\ (pc = "gather" /\ task.l = "done") => parts.l = take(left_df, ids.l)
    /\ (pc = "gather" /\ task.r = "done") => parts.r = take(RightSource(Cur), ids.r)
    /\ (task.l = "todo" \/ task.r = "todo") => pc = "gather"
    /\ Occurs("finish") =>
          /\ Before("gather_left", "finish")
          /\ task.r # "none" => Before("gather_right", "finish")
    /\ Done =>
          /\ out = Sequential.out /\ parts = Sequential.parts
          /\ log = Sequential.log \/ log = SwapGathers(Sequential.log)

\* C20: the two gathers are the only steps of a join that run concurrently:
\* each task reads the inputs and its own index sequence and writes its own
\* projection only, the result is assembled only after both tasks have ended,
\* and the output, the projections and (up to the order of the two gathers)
\* the steps taken are those of the sequential run, under every interleaving.
C20_DualGather == [][GatherSteps]_vars /\ []GatherStates

\* C20 witness: a join whose right task ran before its left task has returned
\* a table with a row.
C20_Witness ==
    /\ Done /\ out.kind = "Ok" /\ height(out.df) >= 1 /\ call.how = "Outer"
    /\ Before("gather_right", "gather_left") /\ Occurs("gather_left")
    /\ log # Sequential.log

-----------------------------------------------------------------------------
(* The Bitmap handles on one buffer, and the operations on them. *)

\* The byte vectors a Bitmap is built on; 13 is 0b00001101.
Buffers == {<<13>>, <<13, 255, 0, 255, 13>>}

\* The lengths asked of a constructor.
NewLengths == {5, 40}

\* The arguments (offset, length) of slice, sliced and slice_unchecked.
SliceArgs == {<<0, 0>>, <<1, 3>>, <<1, 38>>, <<UsizeMax, 1>>}


Restrict(f, S) == [x \in S |-> f[x]]

Live == DOMAIN bitmaps

\* Arc::strong_count: the handles alive and the other owners of the Arc.
StrongCount == Cardinality(Live) + arc.holders

\* The slot a new handle takes.
FreeSlot == CHOOSE j \in 1..MaxBitmaps : j \notin Live /\ \A k \in 1..(j - 1) : k \in Live

Returned(kind, n) == [kind |-> kind, n |-> n, mutable |-> NoMutable]

\* No join is running.
JoinIdle ==
    /\ pc = "idle" /\ call = << >> /\ left_df = << >> /\ other = << >>
    /\ chunks = << >> /\ semi_anti_nulls = FALSE /\ check_rechunk = FALSE
    /\ cow = << >> /\ selected_left = << >> /\ selected_right = << >>
    /\ log = << >> /\ seen = << >> /\ ids = << >> /\ task = << >>
    /\ parts = << >> /\ out = << >>

\* Bitmap::try_new(bytes, length).
TryNew ==
    \E bytes \in Buffers, length \in NewLengths :
        LET o == try_new(bytes, length)
        IN  /\ arc = [bytes |-> bytes, native |-> TRUE, holders |-> 0]
            /\ bitmaps = IF o.kind = "Ok" THEN 1 :> o.bitmap ELSE << >>
            /\ ret = Returned(o.kind, 0)

\* Bitmap::new_with_value(value, length).
NewWithValue ==
    \E value \in BOOLEAN, length \in NewLengths :
        /\ arc = [bytes |-> FilledBytes(value, length), native |-> TRUE,
                  holders |-> 0]
        /\ bitmaps = 1 :> new_with_value(value, length)
        /\ ret = Returned("ok", 0)

\* Bitmap::from_inner_unchecked(bytes, offset, length, unset_bits), called as
\* its safety contract asks: the window lies within the buffer and the count,
\* if given, is the count of the window.  The caller may keep a clone of the
\* Arc, and the Bytes may own foreign memory instead of a vector.
FromInnerUnchecked ==
    \E bytes \in {<<13>>}, offset \in {0, 1}, length \in NewLengths,
       native \in BOOLEAN, holders \in {0, 1}, known \in BOOLEAN :
        /\ bitmap_check(bytes, offset, length)
        /\ arc = [bytes |-> bytes, native |-> native, holders |-> holders]
        /\ bitmaps = 1 :> from_inner_unchecked(offset, length,
                            IF known THEN Some(count_zeros(bytes, offset, length))
                            ELSE None)
        /\ ret = Returned("ok", 0)

BitmapInit ==
    /\ JoinIdle
    /\ threads = << >> /\ cache_order = << >>
    /\ overflow_checks \in BOOLEAN
    /\ TryNew \/ NewWithValue \/ FromInnerUnchecked

\* Clone for Bitmap: another handle on the same Arc.
BitmapClone(i) ==
    /\ Cardinality(Live) < MaxBitmaps
    /\ bitmaps' = bitmaps @@ (FreeSlot :> clone(bitmaps[i]))
    /\ ret' = Returned("ok", 0)
    /\ UNCHANGED <<arc, overflow_checks, join_vars, threads, cache_order>>

\* self.slice(offset, length).
BitmapSlice(i, offset, length) ==
    LET o == bitmap_slice(bitmaps[i], arc.bytes, offset, length, overflow_checks)
    IN  /\ bitmaps' = [bitmaps EXCEPT ![i] = o.bitmap]
        /\ ret' = Returned(o.kind, 0)
        /\ UNCHANGED <<arc, overflow_checks, join_vars, threads, cache_order>>

\* self.sliced(offset, length): the handle is moved in; a panic drops it.
BitmapSliced(i, offset, length) ==
    LET o == bitmap_sliced(bitmaps[i], arc.bytes, offset, length, overflow_checks)
    IN  /\ bitmaps' = IF o.kind = "panic" THEN Restrict(bitmaps, Live \ {i})
                      ELSE [bitmaps EXCEPT ![i] = o.bitmap]
        /\ ret' = Returned(o.kind, 0)
        /\ UNCHANGED <<arc, overflow_checks, join_vars, threads, cache_order>>

\* self.slice_unchecked(offset, length), called within bounds as its safety
\* contract asks.
BitmapSliceUnchecked(i, offset, length) ==
    /\ offset + length <= bitmaps[i].length
    /\ LET o == slice_unchecked(bitmaps[i], arc.bytes, offset, length)
       IN  /\ bitmaps' = [bitmaps EXCEPT ![i] = o.bitmap]
           /\ ret' = Returned(o.kind, 0)
    /\ UNCHANGED <<arc, overflow_checks, join_vars, threads, cache_order>>

\* self.unset_bits().
UnsetBits(i) ==
    LET o == unset_bits(bitmaps[i], arc.bytes)
    IN  /\ bitmaps' = [bitmaps EXCEPT ![i] = o.bitmap]
        /\ ret' = Returned(o.kind, o.n)
        /\ UNCHANGED <<arc, overflow_checks, join_vars, threads, cache_order>>

\* self.set_bits().
SetBits(i) ==
    LET o == set_bits(bitmaps[i], arc.bytes, overflow_checks)
    IN  /\ bitmaps' = [bitmaps EXCEPT ![i] = o.bitmap]
        /\ ret' = Returned(o.kind, o.n)
        /\ UNCHANGED <<arc, overflow_checks, join_vars, threads, cache_order>>

\* self.lazy_unset_bits().
LazyUnsetBits(i) ==
    LET o == lazy_unset_bits(bitmaps[i])
    IN  /\ ret' = Returned(o.kind, o.n)
        /\ UNCHANGED <<arc, bitmaps, overflow_checks, join_vars, threads, cache_order>>

\* self.into_mut(): Right(MutableBitmap) takes the vector out of the Arc and
\* the handle is gone; Left(self) hands the Bitmap back.  from_vec panics on
\* a length beyond the vector.
IntoMut(i) ==
    LET b == bitmaps[i]
    IN  IF IntoMutRight(b, arc.native, StrongCount)
        THEN IF b.length <= Len(arc.bytes) * 8
             THEN /\ bitmaps' = Restrict(bitmaps, Live \ {i})
                  /\ arc' = [arc EXCEPT !.bytes = << >>]
                  /\ ret' = [kind |-> "Right", n |-> 0,
                             mutable |-> MutableBitmap(arc.bytes, b.length)]
                  /\ UNCHANGED <<overflow_checks, join_vars, threads, cache_order>>
             ELSE /\ bitmaps' = Restrict(bitmaps, Live \ {i})
                  /\ ret' = Returned("panic", 0)
                  /\ UNCHANGED <<arc, overflow_checks, join_vars, threads, cache_order>>
        ELSE /\ ret' = Returned("Left", i)
             /\ UNCHANGED <<arc, bitmaps, overflow_checks, join_vars, threads, cache_order>>

\* A handle is dropped.
DropBitmap(i) ==
    /\ bitmaps' = Restrict(bitmaps, Live \ {i})
    /\ ret' = Returned("ok", 0)
    /\ UNCHANGED <<arc, overflow_checks, join_vars, threads, cache_order>>

\* The other owner of the Arc drops its clone.
DropHolder ==
    /\ arc.holders > 0 /\ Live # {}
    /\ arc' = [arc EXCEPT !.holders = @ - 1]
    /\ ret' = Returned("ok", 0)
    /\ UNCHANGED <<bitmaps, overflow_checks, join_vars, threads, cache_order>>

\* The handles whose window lies within the buffer.  A window that left the
\* buffer is not used any more: the handle is only dropped.
Usable ==
    {i \in Live : InBytes(arc.bytes, bitmaps[i].offset, bitmaps[i].length)}

BitmapNext ==
    \/ \E i \in Usable : BitmapClone(i)
    \/ \E i \in Usable, a \in SliceArgs : BitmapSlice(i, a[1], a[2])
    \/ \E i \in Usable, a \in SliceArgs : BitmapSliced(i, a[1], a[2])
    \/ \E i \in Usable, a \in SliceArgs : BitmapSliceUnchecked(i, a[1], a[2])
    \/ \E i \in Usable : UnsetBits(i)
    \/ \E i \in Usable : SetBits(i)
    \/ \E i \in Usable : LazyUnsetBits(i)
    \/ \E i \in Usable : IntoMut(i)
    \/ \E i \in Live : DropBitmap(i)
    \/ DropHolder

BitmapSpec == BitmapInit /\ [][BitmapNext]_vars

-----------------------------------------------------------------------------
(* Properties of the Bitmap. *)

\* The number of zero bits in the window of a handle.
TrueCount(b) == count_zeros(arc.bytes, b.offset, b.length)

\* The cache of a handle is the unknown marker or the count of its window.
CacheExact(b) ==
    \/ b.unset_bit_count_cache = UNKNOWN_BIT_COUNT
    \/ b.unset_bit_count_cache = TrueCount(b)

\* What the counting functions return on a handle is the count of its window.
CountsExact(b) ==
    LET u == unset_bits(b, arc.bytes)
        t == set_bits(b, arc.bytes, overflow_checks)
        l == lazy_unset_bits(b)
    IN  /\ u.kind = "ok" /\ u.n = TrueCount(b) /\ u.n <= b.length
        /\ t.kind = "ok" /\ t.n + u.n = b.length
        /\ l.kind = "None" \/ (l.kind = "Some" /\ l.n = TrueCount(b))

\* C17: in every state reached from the constructors through clone, slice,
\* sliced, slice_unchecked (within bounds), unset_bits and lazy_unset_bits,
\* the cache of every Bitmap is the unknown marker or exactly the number of
\* zero bits of its window, so that unset_bits returns that number, it is at
\* most len(), set_bits() + unset_bits() = len(), and lazy_unset_bits is None
\* or that number.
C17_CachedCount ==
    \A i \in Usable : CacheExact(bitmaps[i]) /\ CountsExact(bitmaps[i])

\* The bits of the window of a Bitmap, as a function from 0..length-1.
BitsOf(b) == [k \in 0..(b.length - 1) |-> get_bit(arc.bytes, b.offset + k)]

\* What slice(offset, length) on `before` is to do: panic iff the new window
\* does not fit, and otherwise leave the bits from `offset` on.
SliceContract(before, offset, length, kind, after) ==
    /\ kind = "panic" <=> offset + length > before.length
    /\ kind # "panic" =>
          /\ after.length = length
          /\ \A k \in 0..(length - 1) :
                get_bit(arc.bytes, after.offset + k)
                    = get_bit(arc.bytes, before.offset + offset + k)

\* Every slice and sliced step keeps the contract and leaves the buffer and
\* the other handles alone.
SliceSteps ==
    \A i \in Usable, a \in SliceArgs :
        /\ BitmapSlice(i, a[1], a[2]) =>
              /\ SliceContract(bitmaps[i], a[1], a[2], ret'.kind, bitmaps'[i])
              /\ arc'.bytes = arc.bytes
              /\ \A j \in Live \ {i} : bitmaps'[j] = bitmaps[j]
        /\ BitmapSliced(i, a[1], a[2]) =>
              /\ SliceContract(bitmaps[i], a[1], a[2], ret'.kind,
                               IF i \in DOMAIN bitmaps' THEN bitmaps'[i]
                               ELSE bitmaps[i])
              /\ arc'.bytes = arc.bytes
              /\ \A j \in Live \ {i} : bitmaps'[j] = bitmaps[j]

\* slice(a, n) followed by slice(b, m) gives the bits of slice(a + b, m).
SlicesCompose ==
    \A i \in Usable, a1 \in SliceArgs, a2 \in SliceArgs :
        (a1[1] + a1[2] <= bitmaps[i].length /\ a2[1] + a2[2] <= a1[2]) =>
            LET first == bitmap_slice(bitmaps[i], arc.bytes, a1[1], a1[2],
                                      overflow_checks)
                second == bitmap_slice(first.bitmap, arc.bytes, a2[1], a2[2],
                                       overflow_checks)
                direct == bitmap_slice(bitmaps[i], arc.bytes, a1[1] + a2[1],
                                       a2[2], overflow_checks)
            IN  /\ first.kind = "ok" /\ second.kind = "ok" /\ direct.kind = "ok"
                /\ BitsOf(second.bitmap) = BitsOf(direct.bitmap)

\* C18: slice(offset, length) and sliced panic iff offset + length >
\* len(); otherwise len() is `length` afterwards, bit i is the bit that was
\* at offset + i, the byte buffer is shared and unchanged, and slice(a, n)
\* followed by slice(b, m) gives the same bits as slice(a + b, m).
C18_SliceContract == [][SliceSteps]_vars /\ []SlicesCompose

\* What an into_mut step on handle i does, given when a MutableBitmap is due:
\* the MutableBitmap has the length and the bits of the Bitmap, which is gone;
\* otherwise the Bitmap comes back as it was.
IntoMutContract(i, due) ==
    LET b == bitmaps[i]
    IN  /\ ret'.kind = "Right" <=> due
        /\ ret'.kind = "Right" =>
              /\ i \notin DOMAIN bitmaps'
              /\ ret'.mutable.length = b.length
              /\ \A k \in 0..(b.length - 1) :
                    get_bit(ret'.mutable.buffer, k) = get_bit(arc.bytes, b.offset + k)
        /\ ret'.kind # "Right" =>
              /\ ret'.kind = "Left" /\ ret'.n = i
              /\ bitmaps' = bitmaps /\ arc' = arc
        /\ Cardinality(Live) >= 2 => ret'.kind = "Left"

\* The buffer of handle i is shared with no other live Bitmap.
NoOtherBitmap(i) == Live = {i}

\* The Arc of the buffer has no owner but handle i: no other live Bitmap and
\* no other clone of the Arc.
SoleOwner(i) == Live = {i} /\ arc.holders = 0

IntoMutStepsAsStated ==
    \A i \in Usable :
        IntoMut(i) =>
            IntoMutContract(i, bitmaps[i].offset = 0 /\ NoOtherBitmap(i) /\ arc.native)

IntoMutSteps ==
    \A i \in Usable :
        IntoMut(i) =>
            IntoMutContract(i, bitmaps[i].offset = 0 /\ SoleOwner(i) /\ arc.native)

-----------------------------------------------------------------------------
(* Threads that share one Bitmap through &self.  The cache is an AtomicU64  *)
(* read and written with Ordering::Relaxed: its stores form one             *)
(* modification order (cache_order), a load gives any value of that order   *)
(* that is not older than what the thread has already seen (view), and a    *)
(* store takes any place in the order after what the thread has seen.       *)

\* The number of threads, and the number of calls each of them makes.
MaxThreads == 2
MaxCalls == 2

\* One Bitmap, built by a constructor, is shared by threads that have not
\* called anything yet.
ThreadInit ==
    /\ JoinIdle
    /\ overflow_checks = FALSE
    /\ TryNew \/ NewWithValue \/ FromInnerUnchecked
    /\ 1 \in DOMAIN bitmaps /\ arc.native /\ arc.holders = 0
    /\ cache_order = <<bitmaps[1].unset_bit_count_cache>>
    /\ threads = [t \in 1..MaxThreads |->
                    [pc |-> "idle", op |-> "", view |-> 1, cache |-> 0,
                     ret |-> [kind |-> "", n |-> 0], calls |-> 0]]

\* Thread t calls `op`: the relaxed load of the cache, and all of the call
\* that follows it up to the store.  lazy_unset_bits and clone end here;
\* unset_bits (and set_bits, which calls it) ends here if the loaded value is
\* a count, and goes on to count and store otherwise.
LoadCache(t, op) ==
    /\ threads[t].pc = "idle" /\ threads[t].calls < MaxCalls
    /\ \E i \in threads[t].view..Len(cache_order) :
          LET self == [bitmaps[1] EXCEPT !.unset_bit_count_cache = cache_order[i]]
              started == [threads[t] EXCEPT !.op = op, !.view = i,
                             !.cache = cache_order[i], !.calls = @ + 1]
              counts == op \in {"unset_bits", "set_bits"}
              o == IF op = "lazy_unset_bits" THEN lazy_unset_bits(self)
                   ELSE IF op = "clone"
                   THEN Outcome("clone", clone(self),
                                clone(self).unset_bit_count_cache)
                   ELSE IF op = "set_bits"
                   THEN set_bits(self, arc.bytes, overflow_checks)
                   ELSE unset_bits(self, arc.bytes)
          IN  threads' = [threads EXCEPT ![t] =
                 IF counts /\ TopBit(cache_order[i])
                 THEN [started EXCEPT !.pc = "store"]
                 ELSE [started EXCEPT !.ret =
                          [kind |-> IF counts THEN op ELSE o.kind, n |-> o.n]]]
    /\ UNCHANGED <<join_vars, bitmap_vars, cache_order>>

\* Mutant: the count is taken from the start of the buffer.
StoreCountFromStart(t) ==
    /\ threads[t].pc = "store"
    /\ \E j \in (threads[t].view + 1)..(Len(cache_order) + 1) :
          LET zeros == count_zeros(arc.bytes, 0, bitmaps[1].length)
              order == SubSeq(cache_order, 1, j - 1) \o <<zeros>>
                           \o SubSeq(cache_order, j, Len(cache_order))
          IN  /\ cache_order' = order
              /\ bitmaps' = [bitmaps EXCEPT ![1].unset_bit_count_cache =
                                order[Len(order)]]
              /\ threads' = [u \in DOMAIN threads |->
                    IF u = t
                    THEN [threads[t] EXCEPT !.pc = "idle", !.view = j,
                             !.ret = [kind |-> threads[t].op,
                                      n |-> IF threads[t].op = "set_bits"
                                            THEN bitmaps[1].length - zeros
                                            ELSE zeros]]
                    ELSE [threads[u] EXCEPT !.view =
                             IF @ >= j THEN @ + 1 ELSE @]]
    /\ UNCHANGED <<join_vars, arc, ret, overflow_checks>>

\* Thread t, having loaded the unknown marker in unset_bits, counts the
\* unset bits of the window, stores the count with a relaxed store and
\* returns it (set_bits returns length minus it).
StoreCount(t) ==
    /\ threads[t].pc = "store"
    /\ \E j \in (threads[t].view + 1)..(Len(cache_order) + 1) :
          LET self == [bitmaps[1] EXCEPT !.unset_bit_count_cache = threads[t].cache]
              o == IF threads[t].op = "set_bits"
                   THEN set_bits(self, arc.bytes, overflow_checks)
                   ELSE unset_bits(self, arc.bytes)
              order == SubSeq(cache_order, 1, j - 1)
                           \o <<o.bitmap.unset_bit_count_cache>>
                           \o SubSeq(cache_order, j, Len(cache_order))
          IN  /\ cache_order' = order
              /\ bitmaps' = [bitmaps EXCEPT ![1].unset_bit_count_cache =
                                order[Len(order)]]
              /\ threads' = [u \in DOMAIN threads |->
                    IF u = t
                    THEN [threads[t] EXCEPT !.pc = "idle", !.view = j,
                             !.ret = [kind |-> threads[t].op, n |-> o.n]]
                    ELSE [threads[u] EXCEPT !.view =
                             IF @ >= j THEN @ + 1 ELSE @]]
    /\ UNCHANGED <<join_vars, arc, ret, overflow_checks>>

ThreadNext ==
    \/ \E t \in DOMAIN threads : LoadCache(t, "unset_bits")
    \/ \E t \in DOMAIN threads : LoadCache(t, "set_bits")
    \/ \E t \in DOMAIN threads : LoadCache(t, "lazy_unset_bits")
    \/ \E t \in DOMAIN threads : LoadCache(t, "clone")
    \/ \E t \in DOMAIN threads : StoreCount(t)

ThreadSpec == ThreadInit /\ [][ThreadNext]_vars

-----------------------------------------------------------------------------
(* Properties of the threads. *)

\* The shared Bitmap and the number of zero bits of its window.
Shared == bitmaps[1]
Exact == TrueCount(Shared)

\* What the ended calls returned: unset_bits the exact count, set_bits the
\* rest of the length, lazy_unset_bits None or the exact count, clone a
\* Bitmap whose cache is unknown or exact.
ReturnsExact ==
    \A t \in DOMAIN threads :
        LET r == threads[t].ret
        IN  /\ r.kind \in {"", "unset_bits", "set_bits", "None", "Some", "clone"}
            /\ r.kind = "unset_bits" => r.n = Exact
            /\ r.kind = "set_bits" => r.n = Shared.length - Exact
            /\ r.kind = "Some" => r.n = Exact
            /\ r.kind = "clone" => r.n \in {UNKNOWN_BIT_COUNT, Exact}

\* Every value of the cache is the unknown marker or the exact count, and no
\* value after the exact count is anything else.
OrderExact ==
    /\ \A i \in 1..Len(cache_order) :
          cache_order[i] \in {UNKNOWN_BIT_COUNT, Exact}
    /\ \A i, j \in 1..Len(cache_order) :
          (i < j /\ cache_order[i] = Exact) => cache_order[j] = Exact
    /\ Shared.unset_bit_count_cache = cache_order[Len(cache_order)]

\* The cache changes only from the unknown marker to the exact count.
CacheMoves ==
    bitmaps'[1].unset_bit_count_cache # Shared.unset_bit_count_cache =>
        /\ Shared.unset_bit_count_cache = UNKNOWN_BIT_COUNT
        /\ bitmaps'[1].unset_bit_count_cache = Exact

\* C21: when several threads concurrently call unset_bits, set_bits,
\* lazy_unset_bits and clone on one shared Bitmap, under every interleaving
\* and every outcome of the relaxed loads and stores each unset_bits call
\* returns the exact number of zero bits, each lazy_unset_bits returns None
\* or that number, every clone's cache is unknown or exact, and the cache
\* only ever moves from unknown to the exact count.
C21_ConcurrentCounts == [][CacheMoves]_vars /\ [](ReturnsExact /\ OrderExact)

\* C21 witness: two threads have both loaded the unknown marker and both
\* stored the count of a window with set and unset bits; one has since
\* returned it from unset_bits and the other holds a clone with that count.
C21_Witness ==
    /\ Len(cache_order) >= 3 /\ cache_order[1] = UNKNOWN_BIT_COUNT
    /\ Exact >= 1 /\ Exact < Shared.length /\ Shared.offset >= 1
    /\ \E t, u \in DOMAIN threads :
          /\ threads[t].ret = [kind |-> "unset_bits", n |-> Exact]
          /\ threads[u].ret = [kind |-> "clone", n |-> Exact]
          /\ threads[t].calls = 1 /\ threads[u].calls = 2

====
